---- MODULE Spec2Model ----
(***************************************************************************)
(* Model of the CyberDetector detection-and-decision engine:               *)
(*   - DDQNDetector      (server/ml/ddqn/detector.py)                      *)
(*   - DDoSDetector      (server/network/analysis/ddos_detector.py)        *)
(*   - DDQNAgent, SimplifiedDDQNAgent (server/ml/ddqn/ddqn_model.py)       *)
(*   - DDQNAgent with 4 actions       (server/analysis/ddqn.py)            *)
(*                                                                         *)
(* Numbers.  Python floats are modelled in fixed point: features, Q values *)
(* and rewards are integers in hundredths (Scale = 100 is 1.0); epsilon is *)
(* an integer in millionths.  Times are whole seconds.                     *)
(***************************************************************************)
EXTENDS Integers, Sequences, FiniteSets, TLC

\* ------------------------------------------------------------------------
\* Bounds of the model
\* ------------------------------------------------------------------------

\* last clock value at which a call may still start (seconds)
MaxTime == 80

\* number of transitions a replay call samples in the model
\* (detector.py:349-350 uses 32)
BatchSize == 2

\* capacity of the replay memories in the model
\* (ddqn_model.py:232 uses 2000, ddqn.py:48 uses 10000)
MemoryCap == 2

\* number of effective replay calls after which the 2-action agent is no
\* longer driven (one full target-update period)
MaxReplays == 5

\* number of effective replay calls after which the 4-action agent is no
\* longer driven (one full target-update period of the largest update_rate)
MaxReplays4 == 3

\* most episodes in an attack history handed to get_attack_history
MaxEpisodes == 3

\* ------------------------------------------------------------------------
\* Fixed point
\* ------------------------------------------------------------------------

Scale == 100

Min(a, b) == IF a < b THEN a ELSE b

Max(a, b) == IF a > b THEN a ELSE b

Abs(a) == IF a < 0 THEN 0 - a ELSE a

RECURSIVE SumOver(_, _)
SumOver(S, f) ==
    IF S = {} THEN 0
    ELSE LET x == CHOOSE y \in S : TRUE
         IN  f[x] + SumOver(S \ {x}, f)

\* number of fraction bits of the fixed-point logarithm
FracBits == 10

One == 1024

RECURSIVE ILog2(_)
ILog2(x) == IF x < 2 THEN 0 ELSE 1 + ILog2(x \div 2)

RECURSIVE Pow2(_)
Pow2(e) == IF e = 0 THEN 1 ELSE 2 * Pow2(e - 1)

RECURSIVE Log2Frac(_, _)
Log2Frac(m, b) ==
    IF b = 0 THEN 0
    ELSE LET sq == (m * m) \div One
         IN  IF sq >= 2 * One
             THEN Pow2(b - 1) + Log2Frac(sq \div 2, b - 1)
             ELSE Log2Frac(sq, b - 1)

\* math.log2(x) for an integer x >= 1, in units of 1/One
log2(x) ==
    LET e == ILog2(x)
    IN  e * One + Log2Frac((x * One) \div Pow2(e), FracBits)

\* ------------------------------------------------------------------------
\* Time: datetime.now(), isoformat() and fromisoformat()
\* ------------------------------------------------------------------------

\* a datetime is a number of seconds; its ISO text is the pair MM:SS
isoformat(t) == <<t \div 60, t % 60>>

fromisoformat(s) == s[1] * 60 + s[2]

\* (a - b).total_seconds()
total_seconds(a, b) == a - b

\* ------------------------------------------------------------------------
\* Traffic windows
\* ------------------------------------------------------------------------

\* the packet records that occur in the modelled traffic
Packets ==
    { [src_ip |-> "10.0.0.1", dst_ip |-> "10.0.1.1", protocol |-> "TCP",
       tcp_flags |-> "S", packet_size |-> 1500],
      [src_ip |-> "10.0.0.2", dst_ip |-> "10.0.1.1", protocol |-> "TCP",
       tcp_flags |-> "S", packet_size |-> 1500],
      [src_ip |-> "10.0.0.3", dst_ip |-> "10.0.1.2", protocol |-> "UDP",
       tcp_flags |-> "", packet_size |-> 1000],
      [src_ip |-> "10.0.0.1", dst_ip |-> "10.0.1.2", protocol |-> "TCP",
       tcp_flags |-> "A", packet_size |-> 500] }

PktSyn1 == CHOOSE p \in Packets : p.src_ip = "10.0.0.1" /\ p.tcp_flags = "S"

PktSyn2 == CHOOSE p \in Packets : p.src_ip = "10.0.0.2"

PktUdp == CHOOSE p \in Packets : p.protocol = "UDP"

PktAck == CHOOSE p \in Packets : p.tcp_flags = "A"

\* a traffic window (the list traffic_data) is given by how often each
\* packet record occurs in it
Window(s1, s2, u, a) ==
    [p \in Packets |-> IF p = PktSyn1 THEN s1
                       ELSE IF p = PktSyn2 THEN s2
                       ELSE IF p = PktUdp THEN u
                       ELSE a]

EmptyWindow == Window(0, 0, 0, 0)

QuietWindow == Window(0, 0, 1, 3)

UdpWindow == Window(0, 0, 300, 20)

SynWindow == Window(250, 250, 0, 0)

\* the traffic windows handed to detect
Windows == {EmptyWindow, UdpWindow, SynWindow}

\* len(traffic_data)
WLen(w) == SumOver(Packets, w)

\* the values of one field over the packets of a window, with multiplicity
FieldCounts(w, field) ==
    LET vals == {p[field] : p \in {q \in Packets : w[q] > 0}}
    IN  [v \in vals |-> SumOver({p \in Packets : p[field] = v}, w)]

\* DDQNDetector._calculate_entropy / DDoSDetector._calculate_entropy, on the
\* frequency dictionary freq_dict of the list of values
_calculate_entropy(freq_dict) ==
    LET n == SumOver(DOMAIN freq_dict, freq_dict)
        k == Cardinality(DOMAIN freq_dict)
        \* n * entropy = n*log2(n) - sum(count * log2(count))
        nH == n * log2(n)
              - SumOver(DOMAIN freq_dict,
                        [v \in DOMAIN freq_dict |->
                            freq_dict[v] * log2(freq_dict[v])])
        max_entropy == IF k > 0 THEN log2(k) ELSE 0
    IN  IF n = 0 THEN 0
        ELSE IF max_entropy > 0 THEN (nH * Scale) \div (n * max_entropy)
        ELSE 0

ZeroFeatures == [i \in 1..8 |-> 0]

\* DDQNDetector.preprocess_traffic_data / DDoSDetector.preprocess_traffic_data
preprocess_traffic_data(w) ==
    IF WLen(w) = 0 THEN ZeroFeatures
    ELSE
    LET source_ips == FieldCounts(w, "src_ip")
        destination_ips == FieldCounts(w, "dst_ip")
        protocol_counts == FieldCounts(w, "protocol")
        syn_count == SumOver({p \in Packets : p.tcp_flags = "S"}, w)
        total_packet_size ==
            SumOver(Packets, [p \in Packets |-> w[p] * p.packet_size])
        total_packets == WLen(w)
        source_entropy == _calculate_entropy(source_ips)
        destination_entropy == _calculate_entropy(destination_ips)
        syn_ratio == (syn_count * Scale) \div total_packets
        traffic_volume ==
            IF total_packet_size > 0
            THEN Min(Scale, total_packet_size \div (1000000 \div Scale))
            ELSE 0
        packet_rate == Min(Scale, (total_packets * Scale) \div 500)
        unique_src_count ==
            Min(Scale, (Cardinality(DOMAIN source_ips) * Scale) \div 100)
        unique_dst_count ==
            Min(Scale, (Cardinality(DOMAIN destination_ips) * Scale) \div 50)
        \* the entropy of list(protocol_counts.keys()): every key once
        protocol_imbalance ==
            _calculate_entropy([v \in DOMAIN protocol_counts |-> 1])
    IN  <<source_entropy, destination_entropy, syn_ratio, traffic_volume,
          packet_rate, unique_src_count, unique_dst_count, protocol_imbalance>>

\* DDQNDetector._estimate_attack_type / DDoSDetector._estimate_attack_type
_estimate_attack_type(features) ==
    LET destination_entropy == features[2]
        syn_ratio == features[3]
        traffic_volume == features[4]
        packet_rate == features[5]
        unique_src_count == features[6]
        protocol_imbalance == features[8]
    IN  IF syn_ratio > 60 THEN "TCP SYN Flood"
        ELSE IF protocol_imbalance < 30 /\ packet_rate > 70 THEN "UDP Flood"
        ELSE IF destination_entropy < 20 /\ packet_rate > 60 THEN "ICMP Flood"
        ELSE IF traffic_volume > 70 /\ unique_src_count > 60
             THEN "Distributed Flood"
        ELSE IF syn_ratio < 30 /\ traffic_volume > 50 THEN "HTTP Flood"
        ELSE IF packet_rate < 40 /\ traffic_volume < 40 THEN "Slowloris"
        ELSE "Unknown Attack"

\* the estimate that charges the destination entropy instead of crediting
\* its absence
_estimate_attack_severity_Signed(features) ==
    LET source_entropy == features[1]
        destination_entropy == features[2]
        syn_ratio == features[3]
        traffic_volume == features[4]
        packet_rate == features[5]
        severity == traffic_volume * 40 + packet_rate * 30 + syn_ratio * 15
                    + source_entropy * 10 - destination_entropy * 5
    IN  Min(Scale * Scale, severity)

\* DDQNDetector._estimate_attack_severity /
\* DDoSDetector._estimate_attack_severity, in units of 1/(Scale*Scale)
_estimate_attack_severity(features) ==
    LET source_entropy == features[1]
        destination_entropy == features[2]
        syn_ratio == features[3]
        traffic_volume == features[4]
        packet_rate == features[5]
        severity == traffic_volume * 40 + packet_rate * 30 + syn_ratio * 15
                    + source_entropy * 10 + (Scale - destination_entropy) * 5
    IN  Min(Scale * Scale, severity)

\* ------------------------------------------------------------------------
\* Value approximators
\* ------------------------------------------------------------------------

\* the list [item for sublist in features for item in sublist]
RECURSIVE Flatten(_)
Flatten(features) ==
    IF features = <<>> THEN <<>>
    ELSE Head(features) \o Flatten(Tail(features))

\* np.argmax: the first index (from 0) of a largest entry
argmax(q) ==
    (CHOOSE i \in 1..Len(q) :
        /\ \A j \in 1..Len(q) : q[j] <= q[i]
        /\ \A j \in 1..(i - 1) : q[j] < q[i]) - 1

\* np.amax
amax(q) == q[argmax(q) + 1]

\* SimplifiedDDQNAgent.thresholds, in hundredths
thresholds == <<65, 30, 50, 60, 70, 60, 30, 40>>

\* SimplifiedDDQNAgent.feature_weights / DDQNAgent.feature_weights
feature_weights == <<18, 12, 25, 15, 20, 5, 2, 3>>

\* a common multiple of the divisors (1 - threshold) and threshold
ScoreDen == 4200

\* SimplifiedDDQNAgent.act: the score is kept in units of
\* 1/(Scale * ScoreDen), so that every division is exact
SimplifiedAct(state) ==
    LET n == Min(8, Len(state))
        term(i) ==
            LET feature == state[i]
                threshold == thresholds[i]
                weight == feature_weights[i]
            IN  IF i \in {1, 3, 4, 5, 6}
                THEN IF feature > threshold
                     THEN weight * (feature - threshold)
                          * (ScoreDen \div (Scale - threshold))
                     ELSE 0
                ELSE IF i \in {2, 7}
                THEN IF feature < threshold
                     THEN weight * (threshold - feature)
                          * (ScoreDen \div threshold)
                     ELSE 0
                ELSE weight * Abs(feature - threshold) * (ScoreDen \div Scale)
        suspicion_score == SumOver(1..n, [i \in 1..n |-> term(i)])
    IN  IF suspicion_score > 45 * ScoreDen THEN 1 ELSE 0

\* A network is a deterministic stub of the Keras model: the function it was
\* initialised with (random weights: any function of its input) and the
\* inputs it has been fitted on since, each with the fitted target vector.
\* Initial functions: two over the windowed states of the detectors (2
\* actions), read off the packet_rate and syn_ratio of the latest window,
\* and one over the weighted 8-feature states of the 4-action agent.
InitQ(init, input) ==
    IF init = "rate"
    THEN IF input[Len(input) - 3] > 50
         THEN <<20, 40 + input[Len(input) - 5] \div 2>>
         ELSE <<70, 10>>
    ELSE IF init = "syn"
    THEN <<40, 30 + input[Len(input) - 5] \div 2>>
    ELSE IF input[3] > 10 THEN <<10, 30, 30, 20>> ELSE <<0, 50, 20, 60>>

\* _build_model: a freshly built network
BuildModel(init) == [init |-> init, fitted |-> <<>>]

\* model.predict(x)[0]
Predict(net, input) ==
    IF \E i \in 1..Len(net.fitted) : net.fitted[i][1] = input
    THEN LET i == CHOOSE j \in 1..Len(net.fitted) : net.fitted[j][1] = input
         IN  net.fitted[i][2]
    ELSE InitQ(net.init, input)

\* model.fit(x, target, epochs=1): the stub learns the target exactly
Fit(net, input, target) ==
    IF \E i \in 1..Len(net.fitted) : net.fitted[i][1] = input
    THEN LET i == CHOOSE j \in 1..Len(net.fitted) : net.fitted[j][1] = input
         IN  [net EXCEPT !.fitted[i] = <<input, target>>]
    ELSE [net EXCEPT !.fitted = Append(@, <<input, target>>)]

\* discount factor gamma = 0.95, in hundredths
gamma == 95

\* gamma * x
Discount(x) == (gamma * x) \div Scale

\* ------------------------------------------------------------------------
\* State
\* ------------------------------------------------------------------------

VARIABLES
    sut,            \* the object the calls are made on
    TF_AVAILABLE,   \* ddqn_model.TF_AVAILABLE
    flat_input_ok,  \* does Keras accept the detector's unshaped state?
    now,            \* datetime.now()
    det,            \* the fields of the DDQNDetector / DDoSDetector
    result,         \* what the last detect call returned
    agent,          \* the fields of ml.ddqn.ddqn_model.DDQNAgent
    agent4,         \* the fields of analysis.ddqn.DDQNAgent
    fit_log,        \* the fits made by the last effective replay call
    last,           \* the last call made, with what it saw on entry
    obs,            \* observations of the calls (not program state)
    threads         \* the request threads of the API: where each is in detect

vars == <<sut, TF_AVAILABLE, flat_input_ok, now, det, result, agent, agent4,
          fit_log, last, obs, threads>>

\* None, where a dict is expected
None == <<>>

\* None, where a datetime is expected
NoTime == -1

\* None, where a string is expected
NoType == "None"

\* window_size of the detector and of its agent (constructor default 5)
WindowSize == 2

\* max_history: the detectors keep the last 1000 windows, of which detect
\* reads the last window_size; the model keeps those
max_history == WindowSize

\* ------------------------------------------------------------------------
\* ml.ddqn.ddqn_model.DDQNAgent
\* ------------------------------------------------------------------------

\* epsilon, epsilon_min: millionths; epsilon_decay: thousandths
EpsScale == 1000000

\* self.epsilon *= self.epsilon_decay
DecayEpsilon(epsilon, epsilon_decay) == (epsilon * epsilon_decay) \div 1000

update_target_frequency == 5

\* DDQNAgent.__init__ (ddqn_model.py); learning_rate in thousandths
NewAgent(init) ==
    [ state_size |-> 8,
      action_size |-> 2,
      window_size |-> WindowSize,
      input_dim |-> 8 * WindowSize,
      learning_rate |-> 1,
      memory |-> <<>>,
      gamma |-> gamma,
      epsilon |-> EpsScale,
      epsilon_min |-> 10000,
      epsilon_decay |-> 995,
      model |-> BuildModel(init),
      target_model |-> BuildModel(init),
      target_update_counter |-> 0 ]

\* an append that never evicts
DequeAppend_Unbounded(memory, x, maxlen) == Append(memory, x)

\* an append that, once the deque is full, drops the new entry
DequeAppend_DropNewest(memory, x, maxlen) ==
    IF Len(memory) >= maxlen THEN memory ELSE Append(memory, x)

\* deque(maxlen=...).append
DequeAppend(memory, x, maxlen) ==
    IF Len(memory) >= maxlen
    THEN Append(SubSeq(memory, Len(memory) - maxlen + 2, Len(memory)), x)
    ELSE Append(memory, x)

\* a memorize whose TensorFlow guard is inverted
memorize_Inverted(ag, tf, tr) ==
    IF tf THEN ag
    ELSE [ag EXCEPT !.memory = DequeAppend(@, tr, MemoryCap)]

\* DDQNAgent.memorize (ddqn_model.py)
memorize(ag, tf, tr) ==
    IF ~tf THEN ag
    ELSE [ag EXCEPT !.memory = DequeAppend(@, tr, MemoryCap)]

\* random.sample(memory, batch_size): every ordered choice of distinct entries
Samples(memory, batch_size) ==
    { [i \in 1..batch_size |-> memory[ix[i]]] :
        ix \in { f \in [1..batch_size -> 1..Len(memory)] :
                    \A i, j \in 1..batch_size : i # j => f[i] # f[j] } }

\* the value written to target[0][action] in DDQNAgent.replay (ddqn_model.py)
ReplayTarget(reward, done, policy_next, target_next) ==
    IF done THEN reward
    ELSE reward + Discount(amax(target_next))

\* the loop over the minibatch in DDQNAgent.replay (ddqn_model.py)
RECURSIVE ReplayLoop(_, _, _, _)
ReplayLoop(model, target_model, minibatch, log) ==
    IF minibatch = <<>> THEN [model |-> model, log |-> log]
    ELSE LET tr == Head(minibatch)
             target == Predict(model, tr.state)
             policy_next == Predict(model, tr.next_state)
             target_next == Predict(target_model, tr.next_state)
             y == ReplayTarget(tr.reward, tr.done, policy_next, target_next)
             fitted == [target EXCEPT ![tr.action + 1] = y]
         IN  ReplayLoop(Fit(model, tr.state, fitted), target_model,
                        Tail(minibatch),
                        Append(log, [tr |-> tr, pred |-> target,
                                     policy_next |-> policy_next,
                                     target_next |-> target_next,
                                     fitted |-> fitted]))

\* is replay(batch_size) a no-op?  (ddqn_model.py:329)
ReplaySkips(ag, tf, batch_size) == ~tf \/ Len(ag.memory) < batch_size

\* the decay of epsilon at the end of replay
EpsilonStep(epsilon, epsilon_min, epsilon_decay) ==
    IF epsilon > epsilon_min THEN DecayEpsilon(epsilon, epsilon_decay)
    ELSE epsilon

\* the test that lets one more call pass before the update
TargetUpdateDue_Late(counter) == counter + 1 > update_target_frequency

\* is the target network updated by the replay call that finds the counter
\* at the value counter?  (ddqn_model.py:350-353)
TargetUpdateDue(counter) == counter + 1 >= update_target_frequency

\* DDQNAgent.replay (ddqn_model.py) on the sampled minibatch
replay(ag, tf, batch_size, minibatch) ==
    IF ReplaySkips(ag, tf, batch_size) THEN [agent |-> ag, log |-> <<>>]
    ELSE LET r == ReplayLoop(ag.model, ag.target_model, minibatch, <<>>)
             due == TargetUpdateDue(ag.target_update_counter)
         IN  [agent |->
                [ag EXCEPT !.model = r.model,
                           !.epsilon = EpsilonStep(ag.epsilon, ag.epsilon_min,
                                                   ag.epsilon_decay),
                           !.target_model = IF due THEN r.model ELSE @,
                           !.target_update_counter = IF due THEN 0 ELSE @ + 1],
              log |-> r.log]

\* ------------------------------------------------------------------------
\* analysis.ddqn.DDQNAgent (4 actions)
\* ------------------------------------------------------------------------

\* DDQNAgent.__init__ (ddqn.py)
NewAgent4(init, epsilon, epsilon_min, epsilon_decay, update_rate) ==
    [ memory |-> <<>>,
      gamma |-> gamma,
      epsilon |-> epsilon,
      epsilon_min |-> epsilon_min,
      epsilon_decay |-> epsilon_decay,
      update_rate |-> update_rate,
      step_counter |-> 0,
      policy_model |-> BuildModel(init),
      target_model |-> BuildModel(init) ]

\* the floats that are not numbers of the fixed-point range: float("inf")
\* and float("nan"), as codes no computed value reaches (-Inf is -inf)
Inf == 1000000000

NaN == 1000000001

\* math.isfinite(x)
isfinite(x) == x \notin {Inf, -Inf, NaN}

\* the float product x * w of a value and a weight, both in hundredths
FloatMul(x, w) ==
    IF x = NaN THEN NaN
    ELSE IF x \in {Inf, -Inf}
         THEN IF w = 0 THEN NaN ELSE IF w > 0 THEN x ELSE -x
    ELSE (x * w) \div Scale

\* DDQNAgent.process_state: state * self.feature_weights
process_state(state) ==
    [i \in 1..Len(state) |-> FloatMul(state[i], feature_weights[i])]

\* DDQNAgent.remember (ddqn.py)
remember(ag, tr) ==
    [ag EXCEPT !.memory =
        DequeAppend(@, [tr EXCEPT !.state = process_state(@),
                                  !.next_state = process_state(@)],
                    MemoryCap)]

\* the target of plain DQN: the largest value of the target network
ReplayTarget4_Vanilla(reward, done, policy_next, target_next) ==
    IF done THEN reward
    ELSE reward + Discount(amax(target_next))

\* the target computed in DDQNAgent.replay (ddqn.py:169-175)
ReplayTarget4(reward, done, policy_next, target_next) ==
    IF done THEN reward
    ELSE reward + Discount(target_next[argmax(policy_next) + 1])

\* the loss 'mse' of a fit: the mean of the squared errors of the prediction
MSE(pred, target_f) ==
    SumOver(1..Len(pred),
            [i \in 1..Len(pred) |->
                (pred[i] - target_f[i]) * (pred[i] - target_f[i])])
    \div Len(pred)

\* np.mean(losses)
MeanLoss(log) ==
    SumOver(1..Len(log), [i \in 1..Len(log) |-> log[i].loss]) \div Len(log)

\* the loop over the minibatch in DDQNAgent.replay (ddqn.py)
RECURSIVE ReplayLoop4(_, _, _, _)
ReplayLoop4(policy_model, target_model, minibatch, log) ==
    IF minibatch = <<>> THEN [model |-> policy_model, log |-> log]
    ELSE LET tr == Head(minibatch)
             policy_next == Predict(policy_model, tr.next_state)
             target_next == Predict(target_model, tr.next_state)
             target == ReplayTarget4(tr.reward, tr.done, policy_next,
                                     target_next)
             pred == Predict(policy_model, tr.state)
             target_f == [pred EXCEPT ![tr.action + 1] = target]
         IN  ReplayLoop4(Fit(policy_model, tr.state, target_f), target_model,
                         Tail(minibatch),
                         Append(log, [tr |-> tr, pred |-> pred,
                                      policy_next |-> policy_next,
                                      target_next |-> target_next,
                                      fitted |-> target_f,
                                      loss |-> MSE(pred, target_f)]))

\* is replay(batch_size) a no-op?  (ddqn.py:162)
ReplaySkips4(ag, batch_size) == Len(ag.memory) < batch_size

\* is the target network updated by the replay call that brings the step
\* counter to step_counter?  (ddqn.py:189)
TargetUpdateDue4(step_counter, update_rate) == step_counter % update_rate = 0

\* a replay that decays epsilon before it looks at the size of the memory
replay4_DecayFirst(ag, batch_size, minibatch) ==
    LET decayed == [ag EXCEPT !.epsilon = EpsilonStep(ag.epsilon,
                                                      ag.epsilon_min,
                                                      ag.epsilon_decay)]
    IN  IF ReplaySkips4(ag, batch_size)
        THEN [agent |-> decayed, log |-> <<>>, ret |-> [loss |-> 0]]
        ELSE LET r == ReplayLoop4(ag.policy_model, ag.target_model,
                                  minibatch, <<>>)
                 due == TargetUpdateDue4(ag.step_counter + 1, ag.update_rate)
             IN  [agent |->
                    [decayed EXCEPT !.policy_model = r.model,
                                    !.step_counter = @ + 1,
                                    !.target_model = IF due THEN r.model
                                                     ELSE @],
                  log |-> r.log,
                  ret |-> [loss |-> MeanLoss(r.log)]]

\* DDQNAgent.replay (ddqn.py) on the sampled minibatch; ret is the loss
\* returned: 0, or the mean of the losses of the fits
replay4(ag, batch_size, minibatch) ==
    IF ReplaySkips4(ag, batch_size)
    THEN [agent |-> ag, log |-> <<>>, ret |-> [loss |-> 0]]
    ELSE LET r == ReplayLoop4(ag.policy_model, ag.target_model, minibatch,
                              <<>>)
             due == TargetUpdateDue4(ag.step_counter + 1, ag.update_rate)
         IN  [agent |->
                [ag EXCEPT !.policy_model = r.model,
                           !.epsilon = EpsilonStep(ag.epsilon, ag.epsilon_min,
                                                   ag.epsilon_decay),
                           !.step_counter = @ + 1,
                           !.target_model = IF due THEN r.model ELSE @],
              log |-> r.log,
              ret |-> [loss |-> MeanLoss(r.log)]]

\* ------------------------------------------------------------------------
\* DDQNDetector and DDoSDetector
\* ------------------------------------------------------------------------

\* number of detect calls made on a detector in the model
MaxCalls == 4

\* the seconds that pass between two calls
Delays == {1, 30, 31}

\* the argument learn of DDQNDetector.detect: the default, which no caller
\* in the repository overrides (online_learning switches learning off)
LearnArgs == {TRUE}

\* DDQNDetector.__init__ / DDoSDetector.__init__ (a DDoSDetector has no
\* online_learning: it never learns); the field agent tells whether
\* self.agent is an agent (TRUE) or still None (FALSE), which _init_model
\* leaves it when the constructor of DDQNAgent raises
NewDetector(online_learning) ==
    [ window_size |-> WindowSize,
      agent |-> TRUE,
      online_learning |-> online_learning,
      traffic_history |-> <<>>,
      attack_history |-> <<>>,
      last_attack_time |-> NoTime,
      last_attack_type |-> NoType,
      attack_in_progress |-> FALSE,
      current_attack_severity |-> 0 ]

\* d[key] = value on a dict
SetKey(d, key, value) ==
    [k \in DOMAIN d \cup {key} |-> IF k = key THEN value ELSE d[k]]

\* the list xs with its last element replaced by x
SetLast(xs, x) == [xs EXCEPT ![Len(xs)] = x]

\* xs[-n:]
LastN(xs, n) ==
    IF Len(xs) <= n THEN xs ELSE SubSeq(xs, Len(xs) - n + 1, Len(xs))

\* traffic_history after the append and the cut to max_history
PushHistory(traffic_history, w) == LastN(Append(traffic_history, w), max_history)

\* the padding that always inserts the zero vector
RECURSIVE PadFront_Zero(_, _)
PadFront_Zero(features, window_size) ==
    IF Len(features) >= window_size THEN features
    ELSE PadFront_Zero(<<ZeroFeatures>> \o features, window_size)

\* features.insert(0, features[0] if features else [0.0] * 8), repeated
\* while len(features) < window_size
RECURSIVE PadFront(_, _)
PadFront(features, window_size) ==
    IF Len(features) >= window_size THEN features
    ELSE PadFront(<<IF features # <<>> THEN features[1] ELSE ZeroFeatures>>
                  \o features, window_size)

\* the list features of detect: one feature vector per window of
\* current_window, padded in front with copies of the first
WindowFeatures(traffic_history, window_size) ==
    LET current_window ==
            IF Len(traffic_history) >= window_size
            THEN LastN(traffic_history, window_size)
            ELSE traffic_history
    IN  PadFront([i \in 1..Min(window_size, Len(current_window)) |->
                     preprocess_traffic_data(current_window[i])],
                 window_size)

\* DDQNAgent.predict (ddqn_model.py): <<action, q_values>>
predict(ag, tf, state) ==
    IF ~tf THEN <<SimplifiedAct(state), <<50, 50>>>>
    ELSE LET q_values == Predict(ag.model, state)
         IN  <<argmax(q_values), q_values>>

\* the grace period of an episode, in seconds (detector.py:321,
\* ddos_detector.py:298)
GracePeriod == 30

\* the test with the grace period counted as over at 30 seconds
EpisodeTimedOut_AtGrace(last_attack_time, t) ==
    last_attack_time # NoTime
    /\ total_seconds(t, last_attack_time) >= GracePeriod

\* the test that ends an episode on a negative detection
EpisodeTimedOut(last_attack_time, t) ==
    last_attack_time # NoTime /\ total_seconds(t, last_attack_time) > GracePeriod

\* the record appended to attack_history by the detection that opens an
\* episode
NewEpisode(t, confidence, features_last) ==
    [ start_time |-> isoformat(t),
      type |-> _estimate_attack_type(features_last),
      confidence |-> confidence,
      severity |-> _estimate_attack_severity(features_last) ]

\* the update that stores the latest confidence and severity
ContinueEpisode_Latest(episode, t, confidence, severity) ==
    LET e1 == SetKey(episode, "last_detection", isoformat(t))
        e2 == SetKey(e1, "confidence", confidence)
    IN  SetKey(e2, "severity", severity)

\* the update of attack_history[-1] by a further positive detection
ContinueEpisode(episode, t, confidence, severity) ==
    LET e1 == SetKey(episode, "last_detection", isoformat(t))
        e2 == SetKey(e1, "confidence", Max(e1.confidence, confidence))
    IN  SetKey(e2, "severity", Max(e2.severity, severity))

\* the update that forgets to set end_time
CloseEpisode_NoEndTime(episode, t) ==
    SetKey(episode, "duration",
           total_seconds(t, fromisoformat(episode.start_time)))

\* the update that measures the duration from end_time
CloseEpisode_FromEnd(episode, t) ==
    LET e1 == SetKey(episode, "end_time", isoformat(t))
        start_time == fromisoformat(e1.end_time)
    IN  SetKey(e1, "duration", total_seconds(t, start_time))

\* the update of attack_history[-1] by the detection that ends the episode
CloseEpisode(episode, t) ==
    LET e1 == SetKey(episode, "end_time", isoformat(t))
        start_time == fromisoformat(e1.start_time)
    IN  SetKey(e1, "duration", total_seconds(t, start_time))

\* DDQNDetector.detect, lines 286-331: the episode bookkeeping
DDQNEpisodes(d, is_attack, confidence, features_last, t) ==
    IF is_attack
    THEN IF ~d.attack_in_progress
         THEN [d EXCEPT
                !.attack_in_progress = TRUE,
                !.last_attack_time = t,
                !.last_attack_type = _estimate_attack_type(features_last),
                !.attack_history =
                    Append(@, SetKey(NewEpisode(t, confidence, features_last),
                                     "features", features_last))]
         ELSE LET severity == _estimate_attack_severity(features_last)
              IN  IF d.attack_history # <<>>
                  THEN [d EXCEPT
                         !.attack_history =
                            SetLast(@, ContinueEpisode(@[Len(@)], t,
                                                       confidence, severity)),
                         !.current_attack_severity = severity,
                         !.last_attack_time = t]
                  ELSE [d EXCEPT !.last_attack_time = t]
    ELSE IF d.attack_in_progress /\ EpisodeTimedOut(d.last_attack_time, t)
         THEN [d EXCEPT
                !.attack_in_progress = FALSE,
                !.attack_history =
                    IF @ # <<>> THEN SetLast(@, CloseEpisode(@[Len(@)], t))
                    ELSE @]
         ELSE d

\* DDoSDetector.detect, lines 267-308: the episode bookkeeping
DDoSEpisodes(d, is_attack, confidence, features_last, t) ==
    IF is_attack
    THEN IF ~d.attack_in_progress
         THEN [d EXCEPT
                !.attack_in_progress = TRUE,
                !.last_attack_time = t,
                !.last_attack_type = _estimate_attack_type(features_last),
                !.attack_history =
                    Append(@, NewEpisode(t, confidence, features_last))]
         ELSE LET severity == _estimate_attack_severity(features_last)
              IN  IF d.attack_history # <<>>
                  THEN [d EXCEPT
                         !.attack_history =
                            SetLast(@, ContinueEpisode(@[Len(@)], t,
                                                       confidence, severity)),
                         !.current_attack_severity = severity]
                  ELSE d
    ELSE IF d.attack_in_progress /\ EpisodeTimedOut(d.last_attack_time, t)
         THEN [d EXCEPT
                !.attack_in_progress = FALSE,
                !.attack_history =
                    IF @ # <<>> THEN SetLast(@, CloseEpisode(@[Len(@)], t))
                    ELSE @]
         ELSE d

\* a result whose current_attack is built from the flag as it was tested,
\* negated
DetectResult_NoCurrent(d, t, is_attack, confidence, action, q_values) ==
    [ timestamp |-> isoformat(t),
      is_attack |-> is_attack,
      confidence |-> confidence,
      action |-> action,
      q_values |-> q_values,
      attack_in_progress |-> d.attack_in_progress,
      current_attack |->
          IF ~d.attack_in_progress
          THEN [ type |-> d.last_attack_type,
                 start_time |-> NoType,
                 duration |-> 0,
                 severity |-> d.current_attack_severity ]
          ELSE None,
      recent_attacks |-> LastN(d.attack_history, 5) ]

\* the dict returned by detect
DetectResult(d, t, is_attack, confidence, action, q_values) ==
    [ timestamp |-> isoformat(t),
      is_attack |-> is_attack,
      confidence |-> confidence,
      action |-> action,
      q_values |-> q_values,
      attack_in_progress |-> d.attack_in_progress,
      current_attack |->
          IF d.attack_in_progress
          THEN [ type |-> d.last_attack_type,
                 start_time |-> IF d.last_attack_time # NoTime
                                THEN isoformat(d.last_attack_time) ELSE NoType,
                 duration |-> IF d.last_attack_time # NoTime
                              THEN total_seconds(t, d.last_attack_time) ELSE 0,
                 severity |-> d.current_attack_severity ]
          ELSE None,
      recent_attacks |-> LastN(d.attack_history, 5) ]

\* dict.get(key, default)
Get(d, key, default) == IF key \in DOMAIN d THEN d[key] ELSE default

\* the rows with the boundary severities moved one row up
SeverityRow_Inclusive(severity) ==
    IF severity >= 8000
    THEN [action |-> "block", severity |-> "critical", target |-> "source",
          duration |-> 3600]
    ELSE IF severity >= 6000
    THEN [action |-> "throttle", severity |-> "high",
          target |-> "specific_sources", duration |-> 1800]
    ELSE IF severity >= 4000
    THEN [action |-> "analyze", severity |-> "medium",
          target |-> "traffic_patterns", duration |-> 900]
    ELSE [action |-> "monitor", severity |-> "low", duration |-> 300]

\* recommend_action, the branch of an attack in progress: the row chosen by
\* the severity of current_attack (in units of 1/(Scale*Scale))
SeverityRow(severity) ==
    IF severity > 8000
    THEN [action |-> "block", severity |-> "critical", target |-> "source",
          duration |-> 3600]
    ELSE IF severity > 6000
    THEN [action |-> "throttle", severity |-> "high",
          target |-> "specific_sources", duration |-> 1800]
    ELSE IF severity > 4000
    THEN [action |-> "analyze", severity |-> "medium",
          target |-> "traffic_patterns", duration |-> 900]
    ELSE [action |-> "monitor", severity |-> "low", duration |-> 300]

\* DDQNDetector.recommend_action / DDoSDetector.recommend_action (the
\* description texts are left out)
recommend_action(detection_result) ==
    LET is_attack == Get(detection_result, "is_attack", FALSE)
        attack_in_progress == Get(detection_result, "attack_in_progress",
                                  FALSE)
        current_attack == Get(detection_result, "current_attack", None)
        confidence == Get(detection_result, "confidence", 0)
    IN  IF ~is_attack /\ ~attack_in_progress
        THEN [action |-> "monitor", severity |-> "low"]
        ELSE IF attack_in_progress
        THEN SeverityRow(Get(current_attack, "severity", 0))
        ELSE IF confidence > 80
        THEN [action |-> "throttle", severity |-> "high", duration |-> 1800]
        ELSE IF confidence > 60
        THEN [action |-> "analyze", severity |-> "medium", duration |-> 900]
        ELSE [action |-> "monitor", severity |-> "low", duration |-> 300]

\* what a detect call is observed to do: the detection, the positive
\* detections of the episode that is open after it, and the last WindowSize
\* traffic windows handed to detect since construction or reset
Observe(o, d0, d1, t, is_attack, confidence, severity, w) ==
    LET opens == is_attack /\ ~d0.attack_in_progress
    IN  [ o EXCEPT
            !.calls = @ + 1,
            !.windows = LastN(Append(@, w), WindowSize),
            !.last_positive = IF is_attack THEN t ELSE @,
            !.ep_start = IF opens THEN t ELSE @,
            !.ep_conf = IF opens THEN {confidence}
                        ELSE IF is_attack THEN @ \cup {confidence} ELSE @,
            !.ep_sev = IF opens THEN {severity}
                       ELSE IF is_attack THEN @ \cup {severity} ELSE @ ]

NoObs ==
    [ calls |-> 0, last_positive |-> NoTime, ep_start |-> NoTime,
      ep_conf |-> {}, ep_sev |-> {},
      replays |-> 0, epsilon0 |-> EpsScale,
      inserted |-> <<>>, windows |-> <<>> ]

NoCall == [ op |-> "new" ]

DetectCall(d0, t, is_attack, confidence, severity, state) ==
    [ op |-> "detect", t |-> t, is_attack |-> is_attack, state |-> state,
      confidence |-> confidence, severity |-> severity,
      open_before |-> d0.attack_in_progress,
      episodes_before |-> Len(d0.attack_history) ]

\* reward = 1.0 if is_attack else -0.1
Reward(is_attack) == IF is_attack THEN 100 ELSE -10

\* the part of detect up to the detection: the new traffic_history, the
\* list features, the state, and what the agent predicts for it
Detection(d, ag, tf, w) ==
    LET traffic_history == PushHistory(d.traffic_history, w)
    IN  [ traffic_history |-> traffic_history,
          features |-> WindowFeatures(traffic_history, d.window_size) ]

Predicted(x, ag, tf) ==
    [ traffic_history |-> x.traffic_history,
      features_last |-> x.features[Len(x.features)],
      state |-> Flatten(x.features),
      p |-> predict(ag, tf, Flatten(x.features)) ]

\* DDQNDetector.detect(traffic_data, learn)
DDQNDetect ==
    /\ sut = "DDQNDetector"
    /\ obs.calls < MaxCalls
    /\ \E w \in Windows, dt \in Delays, learn \in LearnArgs :
        /\ now + dt <= MaxTime
        /\ IF ~det.agent
           THEN \* _init_model fails again; self.agent.predict raises on None
                /\ now' = now + dt
                /\ det' = [det EXCEPT !.traffic_history = PushHistory(@, w)]
                /\ result' = [exception |-> "AttributeError"]
                /\ last' = [op |-> "detect raised", t |-> now + dt]
                /\ obs' = [obs EXCEPT
                              !.calls = @ + 1,
                              !.windows = LastN(Append(@, w), WindowSize)]
                /\ UNCHANGED <<agent, fit_log>>
           ELSE
           \E x \in {Predicted(Detection(det, agent, TF_AVAILABLE, w), agent,
                               TF_AVAILABLE)} :
           LET t == now + dt
               action == x.p[1]
               q_values == x.p[2]
               is_attack == action = 1
               confidence == q_values[action + 1]
               severity == _estimate_attack_severity(x.features_last)
               learns == /\ det.online_learning
                         /\ learn
                         /\ Len(x.traffic_history) >= det.window_size
               tr == [state |-> x.state, action |-> action,
                      reward |-> Reward(is_attack), next_state |-> x.state,
                      done |-> FALSE]
           IN  \E d1 \in {DDQNEpisodes([det EXCEPT !.traffic_history =
                                           x.traffic_history],
                                       is_attack, confidence, x.features_last,
                                       t)},
                  ag1 \in {IF learns THEN memorize(agent, TF_AVAILABLE, tr)
                           ELSE agent} :
               LET replays == /\ learns
                              /\ TF_AVAILABLE
                              /\ Len(ag1.memory) >= BatchSize
               IN
               /\ now' = t
               /\ det' = d1
               /\ last' = DetectCall(det, t, is_attack, confidence, severity,
                                    x.state)
               /\ IF replays /\ ~flat_input_ok
                  THEN \* model.predict(state) raises in replay
                       /\ agent' = ag1
                       /\ fit_log' = fit_log
                       /\ result' = [exception |-> "ValueError"]
                       /\ obs' = Observe(obs, det, d1, t, is_attack, confidence,
                                         severity, w)
                  ELSE /\ \E minibatch \in
                            IF replays THEN Samples(ag1.memory, BatchSize)
                            ELSE {<<>>} :
                          \E r \in {IF replays
                                    THEN replay(ag1, TF_AVAILABLE, BatchSize,
                                                minibatch)
                                    ELSE [agent |-> ag1, log |-> fit_log]} :
                                /\ agent' = r.agent
                                /\ fit_log' = r.log
                                /\ obs' = [Observe(obs, det, d1, t, is_attack,
                                                   confidence, severity, w)
                                           EXCEPT !.replays =
                                              IF replays THEN @ + 1 ELSE @]
                       /\ result' = DetectResult(d1, t, is_attack, confidence,
                                                 action, q_values)
    /\ UNCHANGED <<sut, threads, TF_AVAILABLE, flat_input_ok, agent4>>

\* DDoSDetector.detect(traffic_data)
DDoSDetect ==
    /\ sut = "DDoSDetector"
    /\ obs.calls < MaxCalls
    /\ \E w \in Windows, dt \in Delays :
        /\ now + dt <= MaxTime
        /\ \E x \in {Predicted(Detection(det, agent, TF_AVAILABLE, w), agent,
                               TF_AVAILABLE)} :
           LET t == now + dt
               action == x.p[1]
               q_values == x.p[2]
               confidence == q_values[action + 1]
               is_attack == action = 1
               severity == _estimate_attack_severity(x.features_last)
           IN  \E d1 \in {DDoSEpisodes([det EXCEPT !.traffic_history =
                                           x.traffic_history],
                                       is_attack, confidence, x.features_last,
                                       t)} :
               /\ now' = t
               /\ det' = d1
               /\ last' = DetectCall(det, t, is_attack, confidence, severity,
                                    x.state)
               /\ obs' = Observe(obs, det, d1, t, is_attack, confidence,
                                 severity, w)
               /\ result' = DetectResult(d1, t, is_attack, confidence, action,
                                         q_values)
    /\ UNCHANGED <<sut, threads, TF_AVAILABLE, flat_input_ok, agent, agent4, fit_log>>

\* ------------------------------------------------------------------------
\* network.analysis.api: /detect requests served by threads that share the
\* detector of get_detector (app.run serves every request in its own thread;
\* detect takes no lock)
\* ------------------------------------------------------------------------

\* the request threads
Threads == {1, 2}

\* the traffic_data of the requests (an empty one is answered with 400)
RequestWindows == {SynWindow, QuietWindow}

Idle == [pc |-> "idle"]

\* which branch of the episode bookkeeping the tests of detect select, given
\* the fields as they are when the tests are made
EpisodeBranch(d, is_attack, t) ==
    IF is_attack
    THEN IF ~d.attack_in_progress THEN "open" ELSE "continue"
    ELSE IF d.attack_in_progress /\ EpisodeTimedOut(d.last_attack_time, t)
         THEN "close" ELSE "none"

\* the assignments of the selected branch, made on the fields as they are
\* when the branch runs
EpisodeBody(d, branch, confidence, features_last, t) ==
    IF branch = "open"
    THEN [d EXCEPT
           !.attack_in_progress = TRUE,
           !.last_attack_time = t,
           !.last_attack_type = _estimate_attack_type(features_last),
           !.attack_history =
               Append(@, NewEpisode(t, confidence, features_last))]
    ELSE IF branch = "continue"
    THEN LET severity == _estimate_attack_severity(features_last)
         IN  IF d.attack_history # <<>>
             THEN [d EXCEPT
                    !.attack_history =
                       SetLast(@, ContinueEpisode(@[Len(@)], t, confidence,
                                                  severity)),
                    !.current_attack_severity = severity]
             ELSE d
    ELSE IF branch = "close"
    THEN [d EXCEPT
           !.attack_in_progress = FALSE,
           !.attack_history =
               IF @ # <<>> THEN SetLast(@, CloseEpisode(@[Len(@)], t))
               ELSE @]
    ELSE d

\* detect_attack: a request arrives and its thread calls detector.detect
Accept ==
    /\ sut = "api.detect_attack"
    /\ \E th \in Threads, traffic_data \in RequestWindows :
        /\ threads[th].pc = "idle"
        /\ threads' = [threads EXCEPT ![th] =
                          [pc |-> "detect", traffic_data |-> traffic_data]]
    /\ UNCHANGED <<sut, TF_AVAILABLE, flat_input_ok, now, det, result, agent,
                   agent4, fit_log, last, obs>>

\* detect up to `now = datetime.now()`: the window is appended to
\* traffic_history, the state is built and the agent predicts
ThreadPredict ==
    /\ sut = "api.detect_attack"
    /\ \E th \in Threads :
        /\ threads[th].pc = "detect"
        /\ \E x \in {Predicted(Detection(det, agent, TF_AVAILABLE,
                                         threads[th].traffic_data),
                               agent, TF_AVAILABLE)} :
            /\ det' = [det EXCEPT !.traffic_history = x.traffic_history]
            /\ now' = now + 1
            /\ threads' = [threads EXCEPT ![th] =
                  [pc |-> "tests",
                   traffic_data |-> threads[th].traffic_data,
                   action |-> x.p[1],
                   q_values |-> x.p[2],
                   features_last |-> x.features_last,
                   now |-> now + 1]]
    /\ UNCHANGED <<sut, TF_AVAILABLE, flat_input_ok, result, agent, agent4,
                   fit_log, last, obs>>

\* the tests `if is_attack`, `if not self.attack_in_progress` and the test
\* of the grace period
ThreadTests ==
    /\ sut = "api.detect_attack"
    /\ \E th \in Threads :
        /\ threads[th].pc = "tests"
        /\ threads' = [threads EXCEPT ![th] =
              SetKey(SetKey(@, "pc", "branch"), "branch",
                     EpisodeBranch(det, @.action = 1, @.now))]
    /\ UNCHANGED <<sut, TF_AVAILABLE, flat_input_ok, now, det, result, agent,
                   agent4, fit_log, last, obs>>

\* the assignments of the branch the tests selected
ThreadBranch ==
    /\ sut = "api.detect_attack"
    /\ \E th \in Threads :
        /\ threads[th].pc = "branch"
        /\ det' = EpisodeBody(det, threads[th].branch,
                              threads[th].q_values[threads[th].action + 1],
                              threads[th].features_last, threads[th].now)
        /\ threads' = [threads EXCEPT ![th].pc = "result"]
    /\ UNCHANGED <<sut, TF_AVAILABLE, flat_input_ok, now, result, agent,
                   agent4, fit_log, last, obs>>

\* the result is built from the fields and returned
ThreadReturn ==
    /\ sut = "api.detect_attack"
    /\ \E th \in Threads :
        /\ threads[th].pc = "result"
        /\ result' = DetectResult(det, threads[th].now,
                                  threads[th].action = 1,
                                  threads[th].q_values[threads[th].action + 1],
                                  threads[th].action, threads[th].q_values)
        /\ threads' = [threads EXCEPT ![th].pc = "done"]
    /\ UNCHANGED <<sut, TF_AVAILABLE, flat_input_ok, now, det, agent, agent4,
                   fit_log, last, obs>>

\* DDQNDetector.reset / DDoSDetector.reset
Reset ==
    /\ sut \in {"DDQNDetector", "DDoSDetector"}
    /\ det' = [det EXCEPT !.traffic_history = <<>>,
                          !.attack_history = <<>>,
                          !.last_attack_time = NoTime,
                          !.last_attack_type = NoType,
                          !.attack_in_progress = FALSE,
                          !.current_attack_severity = 0]
    /\ last' = [op |-> "reset"]
    /\ obs' = [obs EXCEPT !.last_positive = NoTime, !.ep_start = NoTime,
                          !.ep_conf = {}, !.ep_sev = {}, !.windows = <<>>]
    /\ UNCHANGED <<sut, threads, TF_AVAILABLE, flat_input_ok, now, result, agent,
                   agent4, fit_log>>

\* ------------------------------------------------------------------------
\* ml.ddqn.ddqn_model.DDQNAgent.load (with TensorFlow; without it load reads
\* the parameters of the simplified agent)
\* ------------------------------------------------------------------------

\* the file at filepath: absent, unreadable by load_model, or a saved model
ModelFiles ==
    { [kind |-> "missing"], [kind |-> "corrupt"],
      [kind |-> "ok", model |-> BuildModel("syn")] }

\* the sidecar a save of an agent of the same shape has written
SavedConfig ==
    [ state_size |-> 8, action_size |-> 2, window_size |-> WindowSize,
      gamma |-> gamma, epsilon |-> EpsScale \div 2, epsilon_min |-> 10000,
      epsilon_decay |-> 995, learning_rate |-> 1 ]

\* the file at config_path: absent, not JSON, the sidecar of an agent of
\* the same shape, the sidecar of an agent of another shape, or a sidecar
\* that lacks the keys from gamma on
ConfigFiles ==
    { [kind |-> "missing"], [kind |-> "corrupt"],
      [kind |-> "ok", config |-> SavedConfig],
      [kind |-> "ok",
       config |-> [SavedConfig EXCEPT !.state_size = 4,
                                      !.window_size = WindowSize + 1]],
      [kind |-> "ok",
       config |-> [k \in {"state_size", "action_size", "window_size"} |->
                     IF k = "state_size" THEN 4
                     ELSE IF k = "action_size" THEN 2
                     ELSE WindowSize + 1]] }

\* the keys load reads from the sidecar, in the order of its assignments
ConfigKeys ==
    << "state_size", "action_size", "window_size", "gamma", "epsilon",
       "epsilon_min", "epsilon_decay", "learning_rate" >>

\* self.<key> = config[<key>] for the keys in order; a missing key raises
\* KeyError, which load catches
RECURSIVE AssignConfig(_, _, _)
AssignConfig(ag, config, keys) ==
    IF keys = <<>> THEN [agent |-> ag, ret |-> TRUE]
    ELSE IF Head(keys) \notin DOMAIN config THEN [agent |-> ag, ret |-> FALSE]
    ELSE LET a1 == [ag EXCEPT ![Head(keys)] = config[Head(keys)]]
             a2 == IF Head(keys) = "window_size"
                   THEN [a1 EXCEPT !.input_dim = a1.state_size * a1.window_size]
                   ELSE a1
         IN  AssignConfig(a2, config, Tail(keys))

\* DDQNAgent.load (ddqn_model.py): load_model twice, then the sidecar, all
\* inside one try whose except returns False
load(ag, model_file, config_file) ==
    IF model_file.kind # "ok" THEN [agent |-> ag, ret |-> FALSE]
    ELSE LET loaded == [ag EXCEPT !.model = model_file.model,
                                  !.target_model = model_file.model]
         IN  IF config_file.kind # "ok"
             THEN [agent |-> loaded, ret |-> FALSE]
             ELSE AssignConfig(loaded, config_file.config, ConfigKeys)

\* ------------------------------------------------------------------------
\* analysis.ddqn.normalize_state and the raw states handed to it
\* ------------------------------------------------------------------------

\* a raw state: entries 1, 2, 3 and 8 in hundredths, entries 4 to 7 (the
\* volume, the rate and the two counts of addresses) as plain numbers

\* normalize_state (ddqn.py): only the entries 4 to 7 are divided and capped
normalize_state(state) ==
    [state EXCEPT ![4] = Min((@ * Scale) \div 10000, Scale),
                  ![5] = Min((@ * Scale) \div 10000, Scale),
                  ![6] = Min((@ * Scale) \div 1000, Scale),
                  ![7] = Min((@ * Scale) \div 1000, Scale)]

\* TrafficAnalyzer.protocol_distribution: the baseline, in percent
protocol_distribution ==
    [p \in {"HTTP", "HTTPS", "DNS", "FTP", "VoIP"} |->
        IF p = "HTTP" THEN 40 ELSE IF p = "HTTPS" THEN 30
        ELSE IF p = "DNS" THEN 15 ELSE IF p = "FTP" THEN 10 ELSE 5]

\* TrafficAnalyzer.calculate_protocol_imbalance, in hundredths; the
\* percentages of the modelled batches are whole numbers
calculate_protocol_imbalance(protocol_counts) ==
    LET total == SumOver(DOMAIN protocol_counts, protocol_counts)
        current_pct(p) == IF p \in DOMAIN protocol_counts
                          THEN (protocol_counts[p] * 100) \div total
                          ELSE 0
        \* current_pct * log2(current_pct / normal_pct), in units of 1/One
        term(p) == IF current_pct(p) > 0
                   THEN current_pct(p) * (log2(current_pct(p))
                                          - log2(protocol_distribution[p]))
                   ELSE 0
        kl_div == SumOver(DOMAIN protocol_distribution,
                          [p \in DOMAIN protocol_distribution |-> term(p)])
    IN  IF total = 0 THEN 0
        ELSE Min((kl_div * Scale) \div (5 * One), Scale)

\* TrafficAnalyzer.calculate_entropy, on the Counter of the items
calculate_entropy(counter) == _calculate_entropy(counter)

\* the packet records that occur in the batches handed to
\* analyze_packet_batch
BatchPackets ==
    { [sourceIp |-> "10.0.0.1", destinationIp |-> "10.0.1.1",
       protocol |-> "HTTP", synFlag |-> FALSE],
      [sourceIp |-> "10.0.0.2", destinationIp |-> "10.0.1.1",
       protocol |-> "TCP", synFlag |-> TRUE] }

\* a batch is given by how many HTTP and how many TCP SYN packets it holds
Batch(http, syn) ==
    [p \in BatchPackets |-> IF p.protocol = "HTTP" THEN http ELSE syn]

Batches == {Batch(4, 6), Batch(10, 0), Batch(1, 9), Batch(0, 20000)}

\* Counter(p.get(field) for p in packets)
Counter(packets, field) ==
    LET vals == {p[field] : p \in {q \in BatchPackets : packets[q] > 0}}
    IN  [v \in vals |-> SumOver({p \in BatchPackets : p[field] = v}, packets)]

\* TrafficAnalyzer.analyze_packet_batch, lines 131-165: the raw state of a
\* batch of packets
BatchState(packets) ==
    LET n == SumOver(BatchPackets, packets)
        src_ips == Counter(packets, "sourceIp")
        dst_ips == Counter(packets, "destinationIp")
        protocol_counts == Counter(packets, "protocol")
        syn_packets == SumOver({p \in BatchPackets : p.synFlag}, packets)
    IN  << calculate_entropy(src_ips),
           calculate_entropy(dst_ips),
           (syn_packets * Scale) \div n,
           n,
           n,
           Cardinality(DOMAIN src_ips),
           Cardinality(DOMAIN dst_ips),
           calculate_protocol_imbalance(protocol_counts) >>

\* the traffic documents handed to extract_features_from_traffic: one that
\* lacks all fields but one, one of quiet traffic, and one of heavy traffic
\* that stores its protocol figure in percent
TrafficDocs ==
    { [source_entropy |-> 0] ,
      [source_entropy |-> 80, destination_entropy |-> 30, syn_ratio |-> 10,
       traffic_volume |-> 1200, packet_rate |-> 1200, unique_src_ips |-> 40,
       unique_dst_ips |-> 3, protocol_distribution |-> 20],
      [source_entropy |-> 80, destination_entropy |-> 30, syn_ratio |-> 10,
       traffic_volume |-> 20000, packet_rate |-> 20000,
       unique_src_ips |-> 4000, unique_dst_ips |-> 3,
       protocol_distribution |-> 40 * Scale] }

\* extract_features_from_traffic (ddqn_api.py), lines 82-108: the raw state
\* read from a traffic document
DocState(traffic_data) ==
    << Get(traffic_data, "source_entropy", 0),
       Get(traffic_data, "destination_entropy", 0),
       Get(traffic_data, "syn_ratio", 0),
       Get(traffic_data, "traffic_volume", 0),
       Get(traffic_data, "packet_rate", 0),
       Get(traffic_data, "unique_src_ips", 0),
       Get(traffic_data, "unique_dst_ips", 0),
       Get(traffic_data, "protocol_distribution", 0) >>

\* ------------------------------------------------------------------------
\* Calls of the functions that keep no state
\* ------------------------------------------------------------------------

\* normalize_state(state), as analyze_packet_batch and
\* extract_features_from_traffic call it
NormalizeState ==
    /\ sut = "functions"
    /\ \E call \in
            { [caller |-> "analyze_packet_batch", state |-> BatchState(b)] :
                b \in Batches }
            \cup
            { [caller |-> "extract_features_from_traffic",
               state |-> DocState(d)] : d \in TrafficDocs } :
          last' = [op |-> "normalize_state", caller |-> call.caller,
                   state |-> call.state, ret |-> normalize_state(call.state)]
    /\ UNCHANGED <<sut, threads, TF_AVAILABLE, flat_input_ok, now, det, result, agent,
                   agent4, fit_log, obs>>

\* the severities of current_attack handed to recommend_action: the
\* boundaries of the rows and their neighbours
Severities == {0, 4000, 4001, 6000, 6001, 8000, 8001, 10000}

\* the detection results handed to recommend_action
DetectionResults ==
    { [is_attack |-> a, confidence |-> c, attack_in_progress |-> FALSE,
       current_attack |-> None] : a \in BOOLEAN, c \in {50, 70, 90} }
    \cup
    { [is_attack |-> a, confidence |-> c, attack_in_progress |-> TRUE,
       current_attack |-> [type |-> "TCP SYN Flood", severity |-> sv]] :
        a \in BOOLEAN, c \in {50, 70, 90}, sv \in Severities }

\* the feature vectors handed to _estimate_attack_severity: every entry 0,
\* 0.5 or 1 (the last three entries, which it does not read, move together)
FeatureVectors ==
    { <<f[1], f[2], f[3], f[4], f[5], x, x, x>> :
        f \in [1..5 -> {0, Scale \div 2, Scale}], x \in {0, Scale} }

\* detector._estimate_attack_severity(features)
EstimateAttackSeverity ==
    /\ sut = "functions"
    /\ \E features \in FeatureVectors :
          last' = [op |-> "_estimate_attack_severity",
                   features |-> features,
                   ret |-> _estimate_attack_severity(features)]
    /\ UNCHANGED <<sut, threads, TF_AVAILABLE, flat_input_ok, now, det, result, agent,
                   agent4, fit_log, obs>>

\* xs[start:] of a list, for any integer start
SliceFrom(xs, start) ==
    LET from == IF start < 0 THEN Max(Len(xs) + start, 0)
                ELSE Min(start, Len(xs))
    IN  SubSeq(xs, from + 1, Len(xs))

\* DDQNDetector.get_attack_history / DDoSDetector.get_attack_history
get_attack_history(attack_history, limit) ==
    IF attack_history # <<>> THEN SliceFrom(attack_history, -limit) ELSE <<>>

\* the episode that a SYN flood detected at minute i opened and the
\* detection 31 seconds later closed
ClosedEpisode(i) ==
    CloseEpisode(NewEpisode(60 * i, 50, preprocess_traffic_data(SynWindow)),
                 60 * i + 31)

\* the lists attack_history of a detector: no episode, or the first
\* n episodes in the order of their detection
AttackHistories ==
    { [i \in 1..n |-> ClosedEpisode(i)] : n \in 0..MaxEpisodes }

\* the values of the request parameter limit: none, one, and up to one more
\* than a history holds
Limits == 0..(MaxEpisodes + 1)

\* detector.get_attack_history(limit), as the /attack-history endpoint
\* calls it
GetAttackHistory ==
    /\ sut = "functions"
    /\ \E attack_history \in AttackHistories, limit \in Limits :
          last' = [op |-> "get_attack_history",
                   attack_history |-> attack_history,
                   limit |-> limit,
                   ret |-> get_attack_history(attack_history, limit)]
    /\ UNCHANGED <<sut, threads, TF_AVAILABLE, flat_input_ok, now, det, result, agent,
                   agent4, fit_log, obs>>

\* detector.recommend_action(detection_result)
RecommendAction ==
    /\ sut = "functions"
    /\ \E detection_result \in DetectionResults :
          last' = [op |-> "recommend_action",
                   detection_result |-> detection_result,
                   ret |-> recommend_action(detection_result)]
    /\ UNCHANGED <<sut, threads, TF_AVAILABLE, flat_input_ok, now, det, result, agent,
                   agent4, fit_log, obs>>

\* ------------------------------------------------------------------------
\* Calls made on the agents directly (as DDQNAgent.train and the training
\* loops of the API do)
\* ------------------------------------------------------------------------

\* a windowed state in which every window has the features f
Windowed(f) == Flatten([i \in 1..WindowSize |-> f])

SynState == Windowed(preprocess_traffic_data(SynWindow))

QuietState == Windowed(preprocess_traffic_data(QuietWindow))

\* the transitions handed to memorize
Transitions ==
    { [state |-> SynState, action |-> 1, reward |-> -100,
       next_state |-> SynState, done |-> TRUE],
      [state |-> QuietState, action |-> 0, reward |-> 100,
       next_state |-> SynState, done |-> FALSE],
      [state |-> SynState, action |-> 1, reward |-> 100,
       next_state |-> QuietState, done |-> FALSE] }

\* the transitions handed to remember (raw 8-feature states)
Transitions4 ==
    { [state |-> preprocess_traffic_data(SynWindow), action |-> 2,
       reward |-> -500, next_state |-> preprocess_traffic_data(SynWindow),
       done |-> TRUE],
      [state |-> preprocess_traffic_data(QuietWindow), action |-> 0,
       reward |-> 100, next_state |-> preprocess_traffic_data(SynWindow),
       done |-> FALSE],
      [state |-> preprocess_traffic_data(SynWindow), action |-> 3,
       reward |-> 700, next_state |-> preprocess_traffic_data(QuietWindow),
       done |-> FALSE] }

\* transitions as a caller may compute them from unchecked inputs, handed
\* to memorize: one of finite values, one whose reward is NaN, one whose
\* state holds an infinite feature
UncheckedTransitions ==
    { [state |-> QuietState, action |-> 0, reward |-> 100,
       next_state |-> SynState, done |-> FALSE],
      [state |-> SynState, action |-> 1, reward |-> NaN,
       next_state |-> SynState, done |-> FALSE],
      [state |-> [QuietState EXCEPT ![4] = Inf], action |-> 0, reward |-> 100,
       next_state |-> QuietState, done |-> FALSE] }

\* the same for remember: extract_features_from_traffic passes the
\* source_entropy of a traffic document through as it is, and get_reward
\* computes the reward from the state
UncheckedTransitions4 ==
    { [state |-> preprocess_traffic_data(QuietWindow), action |-> 0,
       reward |-> 100, next_state |-> preprocess_traffic_data(SynWindow),
       done |-> FALSE],
      [state |-> [preprocess_traffic_data(QuietWindow) EXCEPT ![1] = NaN],
       action |-> 0, reward |-> 100,
       next_state |-> preprocess_traffic_data(SynWindow), done |-> FALSE],
      [state |-> preprocess_traffic_data(SynWindow), action |-> 2,
       reward |-> -Inf, next_state |-> preprocess_traffic_data(SynWindow),
       done |-> FALSE] }

\* the batch sizes replay is called with
BatchSizes == {1, BatchSize}

\* number of remember calls made on the agent whose replay memory alone is
\* observed: five more than the memory holds
MaxInserts == MemoryCap + 5

ReplayCall(batch_size, memory, skipped) ==
    [ op |-> "replay", batch_size |-> batch_size, memory_len |-> Len(memory),
      skipped |-> skipped ]

\* agent.memorize(state, action, reward, next_state, done)
Memorize ==
    /\ sut \in {"ml.DDQNAgent", "replay memory"}
    /\ sut = "replay memory" => Len(agent.memory) < MemoryCap
    /\ \E tr \in (IF sut = "replay memory" THEN UncheckedTransitions
                  ELSE Transitions) :
        /\ agent' = memorize(agent, TF_AVAILABLE, tr)
        /\ last' = [op |-> "memorize", tr |-> tr]
    /\ UNCHANGED <<sut, threads, TF_AVAILABLE, flat_input_ok, now, det, result, agent4,
                   fit_log, obs>>

\* agent.replay(batch_size)
Replay ==
    /\ sut = "ml.DDQNAgent"
    /\ obs.replays < MaxReplays
    /\ \E batch_size \in BatchSizes :
        LET skips == ReplaySkips(agent, TF_AVAILABLE, batch_size)
        IN  \E minibatch \in IF skips THEN {<<>>}
                             ELSE Samples(agent.memory, batch_size) :
                \E r \in {replay(agent, TF_AVAILABLE, batch_size, minibatch)} :
                    /\ agent' = r.agent
                    /\ fit_log' = IF skips THEN fit_log ELSE r.log
                    /\ result' = None
                    /\ last' = ReplayCall(batch_size, agent.memory, skips)
                    /\ obs' = [obs EXCEPT !.replays =
                                  IF skips THEN @ ELSE @ + 1]
    /\ UNCHANGED <<sut, threads, TF_AVAILABLE, flat_input_ok, now, det, agent4>>

\* agent.load(filepath), as DDQNDetector._init_model calls it on the agent
\* it has just constructed; a later load finds the agent as the last left it
Load ==
    /\ sut = "ml.DDQNAgent.load"
    /\ \E model_file \in ModelFiles, config_file \in ConfigFiles :
        \E r \in {load(agent, model_file, config_file)} :
            /\ agent' = r.agent
            /\ last' = [op |-> "load", model_file |-> model_file,
                        config_file |-> config_file, ret |-> r.ret,
                        raised |-> FALSE]
    /\ UNCHANGED <<sut, threads, TF_AVAILABLE, flat_input_ok, now, det, result, agent4,
                   fit_log, obs>>

\* agent.remember(state, action, reward, next_state, done)
Remember ==
    /\ sut \in {"analysis.DDQNAgent", "analysis.DDQNAgent.memory",
                "replay memory"}
    /\ sut = "analysis.DDQNAgent.memory" => Len(obs.inserted) < MaxInserts
    /\ sut = "replay memory" => Len(agent4.memory) < MemoryCap
    /\ \E tr \in (IF sut = "replay memory" THEN UncheckedTransitions4
                  ELSE Transitions4) :
        /\ agent4' = remember(agent4, tr)
        /\ last' = [op |-> "remember", tr |-> tr]
        /\ obs' = IF sut = "analysis.DDQNAgent.memory"
                  THEN [obs EXCEPT !.inserted = Append(@, tr)]
                  ELSE obs
    /\ UNCHANGED <<sut, threads, TF_AVAILABLE, flat_input_ok, now, det, result, agent,
                   fit_log>>

\* agent.replay(batch_size) of the 4-action agent
Replay4 ==
    /\ sut = "analysis.DDQNAgent"
    /\ obs.replays < MaxReplays4
    /\ \E batch_size \in BatchSizes :
        LET skips == ReplaySkips4(agent4, batch_size)
        IN  \E minibatch \in IF skips THEN {<<>>}
                             ELSE Samples(agent4.memory, batch_size) :
                \E r \in {replay4(agent4, batch_size, minibatch)} :
                    /\ agent4' = r.agent
                    /\ fit_log' = IF skips THEN fit_log ELSE r.log
                    /\ result' = r.ret
                    /\ last' = ReplayCall(batch_size, agent4.memory, skips)
                    /\ obs' = [obs EXCEPT !.replays =
                                  IF skips THEN @ ELSE @ + 1]
    /\ UNCHANGED <<sut, threads, TF_AVAILABLE, flat_input_ok, now, det, agent>>

\* ------------------------------------------------------------------------
\* Specification
\* ------------------------------------------------------------------------

\* the constructor arguments epsilon_min, epsilon_decay of the 4-action
\* agent: the defaults, and a fast decay to a high floor
EpsilonConfigs == {<<10000, 995>>, <<300000, 500>>}

\* the constructor argument update_rate of the 4-action agent: 2 with the
\* default decay, 3 with the fast one
UpdateRates == {2, 3}

Init ==
    /\ sut \in {"DDQNDetector", "DDoSDetector", "ml.DDQNAgent",
                "analysis.DDQNAgent", "analysis.DDQNAgent.memory",
                "functions", "ml.DDQNAgent.load", "replay memory",
                "api.detect_attack"}
    /\ TF_AVAILABLE \in (IF sut \in {"DDQNDetector", "DDoSDetector",
                                      "ml.DDQNAgent"}
                         THEN BOOLEAN ELSE {TRUE})
    /\ \E online_learning \in (IF sut = "DDQNDetector" THEN BOOLEAN
                               ELSE {FALSE}),
          constructed \in (IF sut = "DDQNDetector" /\ TF_AVAILABLE
                           THEN BOOLEAN ELSE {TRUE}) :
          det = [NewDetector(online_learning) EXCEPT !.agent = constructed]
    /\ flat_input_ok \in (IF sut = "DDQNDetector" /\ TF_AVAILABLE
                             /\ det.online_learning
                          THEN BOOLEAN ELSE {TRUE})
    /\ now = 0
    /\ result = None
    /\ \E init \in (IF sut = "ml.DDQNAgent" /\ TF_AVAILABLE
                    THEN {"rate", "syn"} ELSE {"rate"}) :
          agent = NewAgent(init)
    /\ \E cfg \in (IF sut = "analysis.DDQNAgent" THEN EpsilonConfigs
                   ELSE {<<10000, 995>>}) :
       \E update_rate \in (IF sut = "analysis.DDQNAgent"
                           THEN {u \in UpdateRates :
                                   (u = 2) <=> (cfg = <<10000, 995>>)}
                           ELSE {2}) :
          agent4 = NewAgent4("q4", EpsScale, cfg[1], cfg[2], update_rate)
    /\ fit_log = <<>>
    /\ last = NoCall
    /\ obs = NoObs
    /\ threads = [th \in Threads |-> Idle]

Next ==
    \/ DDQNDetect
    \/ DDoSDetect
    \/ Reset
    \/ Memorize
    \/ Replay
    \/ Remember
    \/ Replay4
    \/ RecommendAction
    \/ EstimateAttackSeverity
    \/ NormalizeState
    \/ Load
    \/ GetAttackHistory
    \/ Accept
    \/ ThreadPredict
    \/ ThreadTests
    \/ ThreadBranch
    \/ ThreadReturn

Spec == Init /\ [][Next]_vars

\* ------------------------------------------------------------------------
\* Properties
\* ------------------------------------------------------------------------

IsDetector == sut \in {"DDQNDetector", "DDoSDetector"}

\* an episode without end_time
IsOpen(episode) == "end_time" \notin DOMAIN episode

\* the largest element of a non-empty set of numbers
SetMax(S) == CHOOSE x \in S : \A y \in S : y <= x

\* the last call was a detect call that found an episode open
DetectedWithOpenEpisode == last.op = "detect" /\ last.open_before

\* the episode that was open when the last detect call was made
EpisodeBefore == det.attack_history[last.episodes_before]

\* C1: attack_history holds at most one episode without end_time; an open
\* episode is the last entry of attack_history, and attack_in_progress is
\* true while it is open.
C1_AtMostOneOpenEpisode ==
    IsDetector =>
        \A i \in 1..Len(det.attack_history) :
            IsOpen(det.attack_history[i]) =>
                i = Len(det.attack_history) /\ det.attack_in_progress

\* a closed episode followed by an open one
C1_Witness ==
    /\ IsDetector
    /\ Len(det.attack_history) = 2
    /\ ~IsOpen(det.attack_history[1])
    /\ IsOpen(det.attack_history[2])

\* C2: a DDQNDetector.detect call closes the open episode exactly when its
\* detection is negative and more than 30 seconds have passed since the most
\* recent positive detection of the episode; otherwise the episode stays
\* open.
C2_ClosedExactlyOnTimeout ==
    (sut = "DDQNDetector" /\ DetectedWithOpenEpisode) =>
        LET timeout == ~last.is_attack /\ last.t - obs.last_positive > 30
        IN  /\ (~det.attack_in_progress) <=> timeout
            /\ (~IsOpen(EpisodeBefore)) <=> timeout
            /\ Len(det.attack_history) = last.episodes_before

\* a negative detection exactly 30 seconds after the last positive one has
\* left the episode open
C2_Witness ==
    /\ sut = "DDQNDetector"
    /\ DetectedWithOpenEpisode
    /\ ~last.is_attack
    /\ last.t - obs.last_positive = 30
    /\ det.attack_in_progress

C4_ClosedEpisodeRecord ==
    (IsDetector /\ DetectedWithOpenEpisode
     /\ (~det.attack_in_progress \/ ~IsOpen(EpisodeBefore))) =>
        /\ ~det.attack_in_progress
        /\ ~IsOpen(EpisodeBefore)
        /\ "duration" \in DOMAIN EpisodeBefore
        /\ fromisoformat(EpisodeBefore.end_time) = last.t
        /\ fromisoformat(EpisodeBefore.start_time) = obs.ep_start
        /\ EpisodeBefore.duration = last.t - obs.ep_start
        /\ EpisodeBefore.duration >= 0

\* an episode closed by the last call, after more than one minute
C4_Witness ==
    /\ IsDetector
    /\ DetectedWithOpenEpisode
    /\ ~det.attack_in_progress
    /\ EpisodeBefore.duration > 60

\* C5: while an episode is open, the confidence and the severity of its
\* record are the largest confidence and severity of its positive
\* detections so far, the opening one included.
C5_RunningMaxima ==
    (IsDetector /\ det.attack_in_progress /\ det.attack_history # <<>>) =>
        LET episode == det.attack_history[Len(det.attack_history)]
        IN  /\ episode.confidence = SetMax(obs.ep_conf)
            /\ episode.severity = SetMax(obs.ep_sev)

\* a positive detection weaker than an earlier one of the same episode
C5_Witness ==
    /\ IsDetector
    /\ det.attack_in_progress
    /\ last.op = "detect"
    /\ last.is_attack
    /\ last.open_before
    /\ last.confidence < SetMax(obs.ep_conf)
    /\ last.severity < SetMax(obs.ep_sev)

\* the Double-Q target of a fit: the reward of a terminal transition, and
\* otherwise the reward plus the discounted value the target network gives
\* to the action the policy network prefers in next_state
DoubleQTarget(fit) ==
    IF fit.tr.done THEN fit.tr.reward
    ELSE fit.tr.reward
         + Discount(fit.target_next[argmax(fit.policy_next) + 1])

\* C6: every fit of a replay of the detectors' DDQNAgent (ddqn_model.py)
\* uses the Double-Q target for the taken action.
C6_DoubleQTarget ==
    sut \in {"ml.DDQNAgent", "DDQNDetector"} =>
        \A i \in 1..Len(fit_log) :
            fit_log[i].fitted[fit_log[i].tr.action + 1]
                = DoubleQTarget(fit_log[i])

\* C7: every fit of a replay of the 4-action DDQNAgent (ddqn.py) is on the
\* policy's prediction for state with only the taken action's entry
\* replaced, by the Double-Q target.
C7_DoubleQTarget4 ==
    sut = "analysis.DDQNAgent" =>
        \A i \in 1..Len(fit_log) :
            fit_log[i].fitted =
                [fit_log[i].pred EXCEPT ![fit_log[i].tr.action + 1] =
                    DoubleQTarget(fit_log[i])]

\* a fit whose Double-Q target differs from the target of plain DQN
C7_Witness ==
    /\ sut = "analysis.DDQNAgent"
    /\ \E i \in 1..Len(fit_log) :
        /\ ~fit_log[i].tr.done
        /\ fit_log[i].target_next[argmax(fit_log[i].policy_next) + 1]
              # amax(fit_log[i].target_next)

\* epsilon0 * epsilon_decay^n
RECURSIVE Decayed(_, _, _)
Decayed(epsilon0, epsilon_decay, n) ==
    IF n = 0 THEN epsilon0
    ELSE DecayEpsilon(Decayed(epsilon0, epsilon_decay, n - 1), epsilon_decay)

\* the agent the calls are made on
TheAgent == IF sut = "analysis.DDQNAgent" THEN agent4 ELSE agent

\* C8: after n effective replay calls epsilon is
\* max(epsilon_min, epsilon0 * epsilon_decay^n), so never below epsilon_min.
C8_EpsilonSchedule ==
    /\ TheAgent.epsilon =
          Max(TheAgent.epsilon_min,
              Decayed(obs.epsilon0, TheAgent.epsilon_decay, obs.replays))
    /\ TheAgent.epsilon >= TheAgent.epsilon_min

\* the network that is fitted
PolicyOf(ag) == IF sut = "analysis.DDQNAgent" THEN ag.policy_model ELSE ag.model

\* the number of effective replay calls between two target updates
UpdateInterval ==
    IF sut = "analysis.DDQNAgent" THEN agent4.update_rate
    ELSE update_target_frequency

\* C9: the k-th effective replay call sets the target network equal to the
\* policy network if k is a multiple of the update interval, and leaves the
\* target network unchanged otherwise.
C9_TargetSync ==
    [][ obs'.replays = obs.replays + 1 =>
          IF obs'.replays % UpdateInterval = 0
          THEN TheAgent'.target_model = PolicyOf(TheAgent')
          ELSE TheAgent'.target_model = TheAgent.target_model ]_vars

\* the fifth effective replay of the 2-action agent has brought a target
\* network that had fallen behind up to the policy network
C9_Witness ==
    /\ sut = "ml.DDQNAgent"
    /\ obs.replays = update_target_frequency
    /\ agent.target_model = agent.model
    /\ agent.model.fitted # <<>>

\* C10: replay(batch_size) on a memory of fewer than batch_size transitions
\* changes nothing in the agent (epsilon, step counter, memory, policy and
\* target network); the 4-action agent returns the loss 0.
C10_ReplayNoOp ==
    [][ (last'.op = "replay" /\ last'.memory_len < last'.batch_size) =>
          /\ agent' = agent
          /\ agent4' = agent4
          /\ obs'.replays = obs.replays
          /\ sut = "analysis.DDQNAgent" => result' = [loss |-> 0] ]_vars

\* replay(2) was called on a 4-action agent that remembers one transition
\* and returned the loss 0
C10_Witness ==
    /\ sut = "analysis.DDQNAgent"
    /\ last.op = "replay"
    /\ last.memory_len = 1
    /\ last.batch_size = 2
    /\ result = [loss |-> 0]

\* C11: the replay memory of an agent never holds more transitions than its
\* capacity, whatever remember/memorize and replay calls are made.
C11_MemoryWithinCapacity ==
    /\ Len(agent.memory) <= MemoryCap
    /\ Len(agent4.memory) <= MemoryCap

\* a remember call on a full memory: the first one that evicts
C11_Witness ==
    /\ sut = "analysis.DDQNAgent.memory"
    /\ Len(obs.inserted) = MemoryCap + 1
    /\ last.op = "remember"
    /\ Len(agent4.memory) = MemoryCap

\* the transition as remember stores it: with both states weighted
Stored(tr) ==
    [tr EXCEPT !.state = process_state(@), !.next_state = process_state(@)]

\* C12: after n remember calls the memory holds exactly the last
\* min(n, capacity) transitions, in the order of their insertion.
C12_MemoryIsFifo ==
    sut = "analysis.DDQNAgent.memory" =>
        LET n == Len(obs.inserted)
            k == Min(n, MemoryCap)
        IN  /\ Len(agent4.memory) = k
            /\ \A i \in 1..k :
                  agent4.memory[i] = Stored(obs.inserted[n - k + i])

\* capacity + 5 insertions, the five oldest of which differ from everything
\* that is kept
C12_Witness ==
    /\ sut = "analysis.DDQNAgent.memory"
    /\ Len(obs.inserted) = MemoryCap + 5
    /\ \A i \in 1..5 : \A j \in 1..Len(agent4.memory) :
          Stored(obs.inserted[i]) # agent4.memory[j]

\* the detect call has returned a result (it has not raised)
Returned == last.op = "detect" /\ "is_attack" \in DOMAIN result

\* C13: when an episode is open after a DDQNDetector.detect call and the
\* severity of its record is greater than 0.8, recommend_action on the
\* result of that call is block, critical, for 3600 seconds.
C13_BlockOnCriticalEpisode ==
    (sut = "DDQNDetector" /\ Returned /\ det.attack_in_progress
     /\ det.attack_history # <<>>
     /\ det.attack_history[Len(det.attack_history)].severity > 8000) =>
        LET ret == recommend_action(result)
        IN  /\ ret.action = "block"
            /\ ret.severity = "critical"
            /\ ret.duration = 3600

\* the row of the table for the severity s of current_attack
TableRow(s) ==
    IF s > 8000 THEN <<"block", "critical", 3600>>
    ELSE IF s > 6000 THEN <<"throttle", "high", 1800>>
    ELSE IF s > 4000 THEN <<"analyze", "medium", 900>>
    ELSE <<"monitor", "low", 300>>

\* C14: for a result with an attack in progress recommend_action returns
\* the row of the table for the severity of current_attack, whatever
\* is_attack and confidence are; for a result with neither a detection nor
\* an attack in progress it returns monitor, low.
C14_RecommendationTable ==
    last.op = "recommend_action" =>
        LET r == last.detection_result
        IN  /\ r.attack_in_progress =>
                  <<last.ret.action, last.ret.severity, last.ret.duration>>
                      = TableRow(r.current_attack.severity)
            /\ (~r.is_attack /\ ~r.attack_in_progress) =>
                  last.ret.action = "monitor" /\ last.ret.severity = "low"

\* a confident detection during an attack of severity exactly 0.8 is
\* answered by throttling
C14_Witness ==
    /\ last.op = "recommend_action"
    /\ last.detection_result.attack_in_progress
    /\ last.detection_result.is_attack
    /\ last.detection_result.confidence = 90
    /\ last.detection_result.current_attack.severity = 8000
    /\ last.ret.action = "throttle"

\* C15: for a feature vector with entries in [0, 1] the estimated severity
\* is in [0, 1] and is min(1, 0.4*traffic_volume + 0.3*packet_rate
\* + 0.15*syn_ratio + 0.1*source_entropy + 0.05*(1 - destination_entropy)).
C15_SeverityInRange ==
    last.op = "_estimate_attack_severity" =>
        LET f == last.features
            weighted == 40 * f[4] + 30 * f[5] + 15 * f[3] + 10 * f[1]
                        + 5 * (Scale - f[2])
        IN  /\ 0 <= last.ret
            /\ last.ret <= Scale * Scale
            /\ last.ret = Min(Scale * Scale, weighted)

\* the estimate is 0 for a vector in which the destination entropy is 1 and
\* every other entry that is read is 0
C15_Witness ==
    /\ last.op = "_estimate_attack_severity"
    /\ last.features[2] = Scale
    /\ last.features[1] = 0
    /\ last.ret = 0

\* C17: every entry of the state normalize_state returns to
\* analyze_packet_batch or extract_features_from_traffic is in [0, 1].
C17_NormalizedStateInRange ==
    last.op = "normalize_state" =>
        \A i \in 1..8 : 0 <= last.ret[i] /\ last.ret[i] <= Scale

\* the feature vector of each traffic window handed to detect
FeaturesOf == [w \in Windows |-> preprocess_traffic_data(w)]

\* C18: the state handed to the agent by the k-th detect call since
\* construction or reset has 8 * window_size entries: the feature vectors of
\* the last min(k, window_size) traffic windows in chronological order,
\* preceded by window_size - k copies of the earliest of them when
\* k < window_size.
C18_WindowedState ==
    (sut = "DDQNDetector" /\ last.op = "detect") =>
        LET k == Len(obs.windows)
            pad == det.window_size - k
        IN  /\ Len(last.state) = 8 * det.window_size
            /\ \A i \in 1..det.window_size :
                  SubSeq(last.state, 8 * (i - 1) + 1, 8 * i) =
                      FeaturesOf[obs.windows[IF i <= pad THEN 1 ELSE i - pad]]

\* the first call after a reset, with traffic that differs from the traffic
\* seen before the reset: the state is padded with the new window only
C18_Witness ==
    /\ sut = "DDQNDetector"
    /\ last.op = "detect"
    /\ obs.calls > 1
    /\ Len(obs.windows) = 1
    /\ Len(obs.windows) < det.window_size
    /\ obs.windows[1] = SynWindow

\* the fields of the agent that load reads from the sidecar
ConfigFields(ag) ==
    [k \in {ConfigKeys[i] : i \in 1..Len(ConfigKeys)} \cup {"input_dim"} |->
        ag[k]]

\* C19: a load whose sidecar names a state_size or a window_size other than
\* the ones the agent was constructed with (8 and the detector's
\* window_size) reaches the caller as an error, and the agent keeps the
\* state_size and window_size of its construction
C19_MismatchedSidecarRejected ==
    (/\ sut = "ml.DDQNAgent.load"
     /\ last.op = "load"
     /\ last.model_file.kind = "ok"
     /\ last.config_file.kind = "ok"
     /\ \/ last.config_file.config.state_size # 8
        \/ last.config_file.config.window_size # WindowSize)
    => /\ last.raised \/ last.ret = FALSE
       /\ agent.state_size = 8
       /\ agent.window_size = WindowSize

\* C20: a load on a freshly constructed agent that finds the model file or
\* the sidecar missing or corrupt returns False, raises nothing, and leaves
\* the policy model, the target model and the configuration fields as the
\* constructor set them
C20_FailedLoadKeepsFreshAgent ==
    [][(/\ sut = "ml.DDQNAgent.load"
        /\ agent = NewAgent("rate")
        /\ last'.op = "load"
        /\ \/ last'.model_file.kind # "ok"
           \/ last'.config_file.kind # "ok")
       => /\ last'.ret = FALSE
          /\ ~last'.raised
          /\ agent'.model = agent.model
          /\ agent'.target_model = agent.target_model
          /\ ConfigFields(agent') = ConfigFields(agent)]_vars

\* C21: every call of DDQNDetector.detect returns a result that holds
\* is_attack, and none raises: with the heuristic agent answering, and with
\* self.agent still None after a failed _init_model
C21_DetectAlwaysReturns ==
    (sut = "DDQNDetector" /\ last.op \in {"detect", "detect raised"})
    => "is_attack" \in DOMAIN result

\* every value a transition holds is a finite number
FiniteTransition(tr) ==
    /\ isfinite(tr.reward)
    /\ \A i \in 1..Len(tr.state) : isfinite(tr.state[i])
    /\ \A i \in 1..Len(tr.next_state) : isfinite(tr.next_state[i])

\* C22: no transition held in the replay memory of either agent has a NaN
\* or infinite reward, or a NaN or infinite entry in state or next_state
C22_MemoryHoldsFiniteValues ==
    /\ \A i \in 1..Len(agent.memory) : FiniteTransition(agent.memory[i])
    /\ \A i \in 1..Len(agent4.memory) : FiniteTransition(agent4.memory[i])

\* a step that is a detect call of a detector that learns online and whose
\* agent has a replay memory
LearningDetectStep ==
    /\ sut = "DDQNDetector"
    /\ TF_AVAILABLE
    /\ det.agent
    /\ det.online_learning
    /\ last'.op = "detect"
    /\ obs'.calls = obs.calls + 1

\* the step appends the transition of the call to the replay memory
PushesOne ==
    agent'.memory =
        DequeAppend(agent.memory,
                    [state |-> last'.state,
                     action |-> IF last'.is_attack THEN 1 ELSE 0,
                     reward |-> Reward(last'.is_attack),
                     next_state |-> last'.state,
                     done |-> FALSE],
                    MemoryCap)

\* C23 as stated: with online learning, every detect call pushes exactly
\* one transition into the replay memory, from the first call after
\* construction or reset on
C23_OneTransitionPerDetect ==
    [][LearningDetectStep => PushesOne]_vars

\* C23 as amended: with online learning, a detect call pushes exactly one
\* transition when traffic_history, the call's window included, holds at
\* least window_size windows, and leaves the replay memory as it is
\* otherwise
C23_OneTransitionOnceHistoryIsFull ==
    [][LearningDetectStep =>
          IF Len(det'.traffic_history) >= det.window_size
          THEN PushesOne
          ELSE agent'.memory = agent.memory]_vars

\* the call that completes the first window_size windows has pushed the
\* first transition, the calls before it none
C23_Witness ==
    /\ sut = "DDQNDetector"
    /\ TF_AVAILABLE
    /\ det.agent
    /\ det.online_learning
    /\ last.op = "detect"
    /\ obs.calls = det.window_size
    /\ Len(det.traffic_history) = det.window_size
    /\ Len(agent.memory) = 1

\* C24: the protocol_imbalance a detect call computes for its window is the
\* normalized Shannon entropy of the protocol labels of the window's
\* packets, counted with multiplicity; for a window split unevenly between
\* two protocols it lies strictly between 0 and 1
C24_ProtocolImbalanceFromCounts ==
    (sut \in {"DDQNDetector", "DDoSDetector"} /\ last.op = "detect") =>
        LET w == obs.windows[Len(obs.windows)]
            protocol_counts == FieldCounts(w, "protocol")
            protocol_imbalance == last.state[Len(last.state)]
        IN  /\ WLen(w) > 0 =>
                  protocol_imbalance = _calculate_entropy(protocol_counts)
            /\ (\E a, b \in DOMAIN protocol_counts :
                   /\ DOMAIN protocol_counts = {a, b}
                   /\ protocol_counts[a] # protocol_counts[b])
               => 0 < protocol_imbalance /\ protocol_imbalance < Scale

\* C25: in every result of DDQNDetector.detect, current_attack is null
\* exactly when attack_in_progress is false; while an episode is open,
\* current_attack.start_time is the start_time of the open episode's record
\* in attack_history, the time of the detection that opened the episode
C25_StartTimeOfOpenEpisode ==
    (sut = "DDQNDetector" /\ Returned) =>
        /\ result.attack_in_progress = det.attack_in_progress
        /\ (DOMAIN result.current_attack = {}) <=> ~result.attack_in_progress
        /\ result.attack_in_progress =>
              LET episode == det.attack_history[Len(det.attack_history)]
              IN  /\ "end_time" \notin DOMAIN episode
                  /\ result.current_attack.start_time = episode.start_time
                  /\ result.current_attack.start_time =
                         isoformat(obs.ep_start)

\* C26: in the result of the detect call that opens an episode,
\* current_attack.severity is the severity computed from the features of
\* that call, which is the severity stored in the new episode's record
C26_SeverityOfOpeningCall ==
    (sut \in {"DDQNDetector", "DDoSDetector"} /\ Returned
     /\ last.is_attack /\ ~last.open_before) =>
        /\ result.attack_in_progress
        /\ result.current_attack.severity = last.severity
        /\ result.current_attack.severity =
               det.attack_history[Len(det.attack_history)].severity

\* C27: a result of detect with is_attack true has attack_in_progress true
\* and a current_attack that is not null, so that recommend_action answers
\* it from the table of the open episode, never from the confidence
\* thresholds of a detection without an episode
C27_PositiveResultHasEpisode ==
    (sut \in {"DDQNDetector", "DDoSDetector"} /\ Returned
     /\ result.is_attack) =>
        /\ result.attack_in_progress
        /\ DOMAIN result.current_attack # {}
        /\ recommend_action(result) =
               SeverityRow(result.current_attack.severity)

\* a positive detection that has just opened an episode
C27_Witness ==
    /\ sut = "DDQNDetector"
    /\ Returned
    /\ result.is_attack
    /\ ~last.open_before

\* C28: when the heuristic agent answers (no TensorFlow) and window_size is
\* greater than 1, the is_attack of a detect call is the heuristic's verdict
\* on the feature vector of the window of that call, whatever the earlier
\* windows were
C28_HeuristicJudgesLatestWindow ==
    (sut = "DDQNDetector" /\ ~TF_AVAILABLE /\ det.window_size > 1
     /\ last.op = "detect") =>
        LET latest == obs.windows[Len(obs.windows)]
        IN  last.is_attack =
               (SimplifiedAct(preprocess_traffic_data(latest)) = 1)

\* C29: get_attack_history(limit) returns at most limit episodes, the most
\* recent ones in chronological order, for every limit >= 0
C29_AtMostLimitEpisodes ==
    last.op = "get_attack_history" =>
        /\ Len(last.ret) <= last.limit
        /\ last.ret = LastN(last.attack_history, last.limit)

\* the detector after one whole detect call on the window w at time t
AfterDetect(d, w, t) ==
    LET x == Predicted(Detection(d, agent, TF_AVAILABLE, w), agent,
                       TF_AVAILABLE)
    IN  DDoSEpisodes([d EXCEPT !.traffic_history = x.traffic_history],
                     x.p[1] = 1, x.p[2][x.p[1] + 1], x.features_last, t)

\* the detector after the call of thread a and then the call of thread b,
\* each made as a whole on a fresh detector
Serial(a, b) ==
    AfterDetect(AfterDetect(NewDetector(FALSE), threads[a].traffic_data, 1),
                threads[b].traffic_data, 2)

====
